---------------------------- MODULE Spec2Model ----------------------------
(***************************************************************************)
(* A model of symlinkwalk.SymlinkWalk (src/symlinkwalk.py) and of the      *)
(* PathRef classes it uses (src/support/pathref.py, and the earlier        *)
(* src/pathref.py).                                                        *)
(*                                                                         *)
(* A path is the sequence of its segments below the root "/": <<>> is "/", *)
(* <<"d", "a">> is "/d/a".  pathlib keeps ".." segments, so a segment may  *)
(* be "..".  A relative input path is held with its base ("rel", "home")   *)
(* until resolve_path joins it to the working directory.                   *)
(***************************************************************************)
EXTENDS Integers, Sequences, FiniteSets, TLC

VARIABLES
    fs,       \* the filesystem: path -> node; fixed during a run
    order,    \* the order in which os.scandir() lists names; fixed during a run
    call,     \* the call the consumer makes and its arguments
    self,     \* the SymlinkWalk instance iter_dir()/iter_tree() run on
    slw,      \* the temporary SymlinkWalk resolve_path() allocates
    frames,   \* suspended generator frames, innermost last
    ctl,      \* where control is: [at, on, ref, exc, fn]
    yielded,  \* the paths handed to the consumer so far, in order
    result,   \* what resolve_path() returned (kind "none" before it returns)
    raised,   \* the exception that reached the consumer ("" when none)
    log,      \* history: symlinks followed, directories listed, broken links attributed
    prev,     \* history: what each run before a reset() ended with
    cmp       \* two PathRef values and what comparing and hashing them gave

vars == <<fs, order, call, self, slw, frames, ctl, yielded, result, raised, log, prev, cmp>>

---------------------------------------------------------------------------
(* Bounds of the model *)

\* symlinks the operating system follows in one lookup before it gives up (ELOOP)
MaxHops == 8
\* generator frames that may be suspended at once; a walk that would nest
\* deeper is not run on (MaxDepthCutsOnlyRepeats: it would never end)
MaxDepth == 40
\* times the consumer makes a further call after its call has ended
MaxResets == 1

---------------------------------------------------------------------------
(* Sequences and pure paths (pathlib.PurePath, os.path) *)

Root == <<>>
Last(s) == s[Len(s)]
Front(s) == SubSeq(s, 1, Len(s) - 1)
Reverse(s) == [i \in 1..Len(s) |-> s[Len(s) + 1 - i]]
Range(s) == {s[i] : i \in 1..Len(s)}

\* PurePath.parent: lexical, and the root is its own parent
Parent(p) == IF p = <<>> THEN <<>> ELSE Front(p)
\* PurePath.name
Name(p) == IF p = <<>> THEN "" ELSE Last(p)
IsPrefix(p, q) == Len(p) <= Len(q) /\ SubSeq(q, 1, Len(p)) = p

\* os.path.normpath on an absolute path: ".." is collapsed lexically
RECURSIVE Normpath(_)
Normpath(p) ==
    IF p = <<>> THEN <<>>
    ELSE LET q == Normpath(Front(p))
         IN  IF Last(p) = ".." THEN Parent(q) ELSE Append(q, Last(p))

---------------------------------------------------------------------------
(* The filesystem and the system calls the code makes on it *)

NodeDir == [kind |-> "dir", abs |-> FALSE, segs |-> <<>>]
NodeFile == [kind |-> "file", abs |-> FALSE, segs |-> <<>>]
NodeAbsent == [kind |-> "absent", abs |-> FALSE, segs |-> <<>>]
Link(abs, segs) == [kind |-> "link", abs |-> abs, segs |-> segs]

Present(f, p) == p \in DOMAIN f /\ f[p].kind # "absent"

\* The kernel's path lookup from directory cur: every symlink is followed,
\* ".." is the physical parent.  <<p>> when the lookup ends at node p, <<>>
\* when it fails (ENOENT, ENOTDIR, ELOOP).
RECURSIVE Walk(_, _, _, _)
Walk(f, cur, rest, fuel) ==
    IF rest = <<>> THEN <<cur>>
    ELSE IF f[cur].kind # "dir" THEN <<>>
    ELSE IF Head(rest) = ".." THEN Walk(f, Parent(cur), Tail(rest), fuel)
    ELSE LET child == Append(cur, Head(rest))
         IN  IF ~Present(f, child) THEN <<>>
             ELSE IF f[child].kind = "link"
                  THEN IF fuel = 0 THEN <<>>
                       ELSE Walk(f, IF f[child].abs THEN Root ELSE cur,
                                 f[child].segs \o Tail(rest), fuel - 1)
                  ELSE Walk(f, child, Tail(rest), fuel)

\* stat(): the node a path leads to, symlinks followed
Stat(p) == Walk(fs, Root, p, MaxHops)
\* lstat(): as stat(), but a symlink in the last segment is not followed
Lstat(p) ==
    IF p = <<>> \/ Last(p) = ".." THEN Stat(p)
    ELSE LET dir == Walk(fs, Root, Front(p), MaxHops)
         IN  IF dir = <<>> THEN <<>>
             ELSE IF fs[dir[1]].kind # "dir" THEN <<>>
             ELSE IF Present(fs, Append(dir[1], Last(p)))
                  THEN <<Append(dir[1], Last(p))>> ELSE <<>>

os_path_exists(p) == Stat(p) # <<>>
is_dir(p) == Stat(p) # <<>> /\ fs[Stat(p)[1]].kind = "dir"
is_symlink(p) == Lstat(p) # <<>> /\ fs[Lstat(p)[1]].kind = "link"
\* Path.readlink(): the stored target, [abs, segs]
readlink(p) == fs[Lstat(p)[1]]

\* The names os.scandir(p) lists, in listing order.  Each entry's path is the
\* path given to scandir joined with the name.
scandir(p) ==
    LET dir == Stat(p)[1]
    IN  SelectSeq(order, LAMBDA n : Present(fs, Append(dir, n)))

---------------------------------------------------------------------------
(* PathRef and its subclasses (src/support/pathref.py) *)

\* PathRef over a str or a pathlib.Path
PathRef(segs) == [segs |-> segs, entry |-> FALSE, inlink |-> FALSE, origin |-> <<>>]
\* PathRef over an os.DirEntry
EntryRef(segs) == [segs |-> segs, entry |-> TRUE, inlink |-> FALSE, origin |-> <<>>]
\* _InLinkPath: a path being built from a symlink's stored target.  origin is
\* history: the symlink whose stored target held the last segment.
_InLinkPath(segs, origin) == [segs |-> segs, entry |-> FALSE, inlink |-> TRUE, origin |-> origin]

\* An exists() that takes every path to be there
exists_unchecked(pathRef) == TRUE

\* PathRef.exists()
exists(pathRef) == IF pathRef.entry THEN TRUE ELSE os_path_exists(pathRef.segs)

\* Outcomes: PathRef, MissingPath, BrokenLink, RecursiveLink.  Equality and
\* hashing go by str() alone, so a set holds one PathRef per string.
Outcome(kind, segs) == [kind |-> kind, segs |-> segs]
NoOutcome == Outcome("none", <<>>)
SetAdd(set, o) == IF \E x \in set : x.segs = o.segs THEN set ELSE set \cup {o}

is_recursive_link(o) == o.kind = "RecursiveLink"
is_broken_link(o) == o.kind = "BrokenLink"
\* exists() of an outcome: MissingPath and BrokenLink override it to False
outcome_exists(o) ==
    IF o.kind \in {"MissingPath", "BrokenLink"} THEN FALSE ELSE os_path_exists(o.segs)

---------------------------------------------------------------------------
(* SymlinkWalk: construction and the helpers of _scan() *)

\* The default path_filter.  A filter is given by the set of names it
\* rejects: path_filter(p) is False iff the last segment of p is one of them.
allow_all_paths == {}

\* SymlinkWalk.__init__
SymlinkWalk(path_filter, yield_unique) ==
    [path_filter |-> path_filter,
     yield_unique |-> yield_unique,
     path_hits |-> <<>>,
     bad_paths |-> {},
     skipped |-> {},
     _symlinks |-> <<>>,
     _elem_stack |-> <<>>,
     _yield_fn |-> "_yield_path"]

\* A walker that accepts every path whatever its filter says
path_filter_ignored(d, pathRef) == TRUE

\* self.path_filter(pathRef)
path_filter(d, pathRef) == Name(pathRef.segs) \notin d.path_filter

\* An element of _elem_stack: a str, or an _InLinkElem.  origin is history:
\* the symlink whose stored target the element was read from.
Elem(s) == [elem |-> s, inlink |-> FALSE, origin |-> <<>>]
_InLinkElem(s, origin) == [elem |-> s, inlink |-> TRUE, origin |-> origin]
ElemStrs(stack) == [i \in 1..Len(stack) |-> stack[i].elem]

\* What one run of _scan()'s body ends in:
\*   "return"  it returned without yielding
\*   "call"    it called _scan(ref) and is suspended in that yield from
\*   "yield"   it called self._yield_fn(ref), which yields ref first
\*   "raise"   it raised exc
\* symlink is the local variable the finally clause reads; ev is history.
Res(d, out, ref, symlink, exc, ev) ==
    [d |-> d, out |-> out, ref |-> ref, symlink |-> symlink, exc |-> exc, ev |-> ev]
Ev(kind, segs, origin) == [ev |-> kind, segs |-> segs, origin |-> origin]

\* A clear() that leaves the list as it is
clear_nothing(stack) == stack

\* list.clear()
clear(stack) == <<>>

\* pathRef in self._symlinks
InGuard(d, pathRef) == pathRef.segs \in Range(d._symlinks)

\* The finally clause of _scan(): if symlink: self._symlinks.pop()
Finally(d, symlink) ==
    IF ~symlink THEN [d |-> d, exc |-> ""]
    ELSE IF d._symlinks = <<>> THEN [d |-> d, exc |-> "IndexError"]
    ELSE [d |-> [d EXCEPT !._symlinks = Front(@)], exc |-> ""]

\* A record of the missing path with the pending elements joined as stacked
BadPathOf_stack_order(d, pathRef) ==
    IF pathRef.inlink
    THEN Outcome("BrokenLink", Last(d._symlinks))
    ELSE Outcome("MissingPath", pathRef.segs \o ElemStrs(d._elem_stack))

\* The bad path _scan() records for a path that does not exist
BadPathOf(d, pathRef) ==
    IF pathRef.inlink
    THEN Outcome("BrokenLink", Last(d._symlinks))
    ELSE Outcome("MissingPath", pathRef.segs \o Reverse(ElemStrs(d._elem_stack)))

\* The elements of a symlink's stored target stacked in the target's own order
LinkElems_unreversed(link, origin) ==
    [i \in 1..Len(link.segs) |-> _InLinkElem(link.segs[i], origin)]

\* The elements a symlink's stored target puts on the stack, top last
LinkElems(link, origin) ==
    [i \in 1..Len(link.segs) |-> _InLinkElem(Reverse(link.segs)[i], origin)]

\* The path _scan() continues from after reading a symlink's stored target
LinkBase(link, pathRef) ==
    IF link.abs THEN PathRef(Root) ELSE PathRef(Parent(pathRef.segs))

\* _scan() from "symlink = pathRef.path_or_entry.is_symlink()" to its end
ScanLink(d, pathRef) ==
    LET symlink == is_symlink(pathRef.segs)
    IN  IF symlink /\ InGuard(d, pathRef)
        THEN LET d1 == [d EXCEPT !.bad_paths = SetAdd(@, Outcome("RecursiveLink", pathRef.segs)),
                                !._elem_stack = clear(@)]
                 f == Finally(d1, symlink)
             IN  IF f.exc # ""
                 THEN Res(f.d, "raise", pathRef, symlink, f.exc, <<>>)
                 ELSE Res(f.d, "return", pathRef, symlink, "", <<>>)
        ELSE LET link == readlink(pathRef.segs)
                 d1 == IF symlink
                       THEN [d EXCEPT !._symlinks = Append(@, pathRef.segs),
                                      !._elem_stack = @ \o LinkElems(link, pathRef.segs)]
                       ELSE d
                 base == IF symlink THEN LinkBase(link, pathRef) ELSE pathRef
                 ev == IF symlink THEN <<Ev("follow", pathRef.segs, <<>>)>> ELSE <<>>
             IN  IF d1._elem_stack # <<>>
                 THEN LET part == Last(d1._elem_stack)
                          subPath == IF part.inlink
                                     THEN _InLinkPath(Append(base.segs, part.elem), part.origin)
                                     ELSE PathRef(Append(base.segs, part.elem))
                      IN  Res([d1 EXCEPT !._elem_stack = Front(@)], "call", subPath, symlink, "", ev)
                 ELSE Res(d1, "yield", base, symlink, "", ev)

\* A _scan() that leaves a trailing ".." in its candidate
collapse_dotdot_off(pathRef) == pathRef

\* _scan(), lines 373-374: a candidate whose last segment is ".." is replaced
\* by its os.path.normpath
collapse_dotdot(pathRef) ==
    IF Name(pathRef.segs) = ".." /\ ~pathRef.entry
    THEN PathRef(Normpath(pathRef.segs)) ELSE pathRef

\* One run of the body of SymlinkWalk._scan(pathRef) on the instance d
_scan(d, pathRef) ==
    IF ~exists(pathRef)
    THEN IF pathRef.inlink /\ d._symlinks = <<>>
         THEN Res(d, "raise", pathRef, FALSE, "IndexError", <<>>)
         ELSE Res([d EXCEPT !.bad_paths = SetAdd(@, BadPathOf(d, pathRef)),
                            !._elem_stack = clear(@)],
                  "return", pathRef, FALSE, "",
                  IF pathRef.inlink
                  THEN <<Ev("broken", Last(d._symlinks), pathRef.origin)>> ELSE <<>>)
    ELSE LET norm == collapse_dotdot(pathRef)
         IN  IF ~path_filter(d, norm)
             THEN Res([d EXCEPT !.skipped = @ \cup {norm.segs}, !._elem_stack = clear(@)],
                      "return", norm, FALSE, "", <<>>)
             ELSE IF d.yield_unique /\ norm.segs \in DOMAIN d.path_hits
             THEN Res([d EXCEPT !.path_hits[norm.segs] = @ + 1, !._elem_stack = clear(@)],
                      "return", norm, FALSE, "", <<>>)
             ELSE IF d.yield_unique
             THEN ScanLink([d EXCEPT !.path_hits =
                               [p \in DOMAIN @ \cup {norm.segs} |->
                                   IF p = norm.segs THEN 1 ELSE @[p]]], norm)
             ELSE ScanLink(d, norm)

---------------------------------------------------------------------------
(* The filesystems and the calls the model runs *)

\* The working directory (Path.cwd()) and the home directory "~" expands to
Cwd == <<"d">>
Home == <<"d", "s">>

\* "/", "/d" and "/d/s" are directories; "/d/a", "/d/b" and "/d/s/c" each are
\* absent, a file, a directory or a symlink.  "x" names nothing.
NodesA ==
    {NodeAbsent, NodeFile, NodeDir,
     Link(FALSE, <<>>),            \* a -> .      its own directory
     Link(FALSE, <<"b">>),         \* a -> b
     Link(FALSE, <<"x">>),         \* a -> x      dangling
     Link(FALSE, <<"b", "c">>),    \* a -> b/c
     Link(FALSE, <<"b", "x">>),    \* a -> b/x
     Link(TRUE, <<"d", "s">>)}     \* a -> /d/s
NodesB ==
    {NodeAbsent, NodeFile, NodeDir,
     Link(FALSE, <<>>),            \* b -> .
     Link(FALSE, <<"a">>),         \* b -> a
     Link(FALSE, <<"s">>)}         \* b -> s
NodesC ==
    {NodeAbsent, NodeFile,
     Link(FALSE, <<"..">>),        \* c -> ..     an ancestor
     Link(FALSE, <<"..", "a">>)}   \* c -> ../a

MkFs(a, b, c) ==
    [p \in {Root, <<"d">>, <<"d", "s">>, <<"d", "a">>, <<"d", "b">>, <<"d", "s", "c">>} |->
        IF p = <<"d", "a">> THEN a
        ELSE IF p = <<"d", "b">> THEN b
        ELSE IF p = <<"d", "s", "c">> THEN c
        ELSE NodeDir]
Filesystems == {MkFs(a, b, c) : a \in NodesA, b \in NodesB, c \in NodesC}

Orders == {<<"a", "b", "s", "c", "d">>, <<"s", "d", "c", "b", "a">>}

\* An input path: where it starts ("abs", "rel", or "home" for a leading "~")
\* and its remaining segments
In(base, segs) == [base |-> base, segs |-> segs]
ResolveInputs ==
    {In("abs", <<"d", "a">>), In("abs", <<"d", "b">>), In("abs", <<"d", "s", "c">>),
     In("abs", <<"d", "a", "c">>), In("abs", <<"d", "a", "a">>),
     In("abs", <<"d", "x", "y", "z">>), In("abs", <<"d", "s", "..", "a">>),
     In("rel", <<"a">>), In("rel", <<"..", "d", "b">>), In("rel", <<"s", "..", "b">>),
     In("rel", <<"s", "c", "..", "b">>), In("home", <<"c">>)}
Filters == {allow_all_paths, {"s"}, {"d"}, {"x"}}

Call(op, path, resolved, expand_user, strict) ==
    [op |-> op, path |-> path, resolved |-> resolved,
     expand_user |-> expand_user, strict |-> strict]
ResolveCalls ==
    {Call("resolve_path", p, FALSE, TRUE, s) : p \in ResolveInputs, s \in BOOLEAN}
    \cup {Call("resolve_path", In("home", <<"c">>), FALSE, FALSE, FALSE)}
IterCalls ==
    {Call(op, In("abs", <<"d">>), TRUE, TRUE, FALSE) : op \in {"iter_dir", "iter_tree"}}
    \cup {Call(op, In("abs", <<"d", "b">>), FALSE, TRUE, FALSE) : op \in {"iter_dir", "iter_tree"}}

\* The path as the operating system reads it: "~" is an ordinary name there
AbsOf(path) ==
    IF path.base = "abs" THEN path.segs
    ELSE IF path.base = "rel" THEN Cwd \o path.segs
    ELSE Cwd \o <<"~">> \o path.segs

\* Path.expanduser()
expanduser(path) ==
    IF path.base = "home" THEN In("abs", Home \o path.segs) ELSE path

---------------------------------------------------------------------------
(* State *)

Ctl(at, on, ref, exc, fn) == [at |-> at, on |-> on, ref |-> ref, exc |-> exc, fn |-> fn]

\* A suspended _scan() invocation.  symlink is its local variable.  The rest
\* is history: ref is the path it was called with, g0, e0 and h0 are
\* _symlinks, _elem_stack and path_hits as they were when it was called.
ScanFrame(symlink, ref, d) ==
    [k |-> "scan", symlink |-> symlink, ref |-> ref,
     g0 |-> d._symlinks, e0 |-> d._elem_stack, h0 |-> d.path_hits,
     dir |-> <<>>, todo |-> <<>>]
\* An open os.scandir() handle on dir with the names still to come
DirFrame(dir, todo) ==
    [k |-> "dir", symlink |-> FALSE, ref |-> PathRef(dir),
     g0 |-> <<>>, e0 |-> <<>>, h0 |-> <<>>,
     dir |-> dir, todo |-> todo]

\* No PathRef values are being compared
NoCompare == [module |-> "", a |-> <<>>, b |-> <<>>, did |-> {}]

Init ==
    /\ fs \in Filesystems
    /\ order \in Orders
    /\ call \in ResolveCalls \cup IterCalls
    /\ call.op = "resolve_path" => order = <<"a", "b", "s", "c", "d">>
    /\ \E f \in Filters, u \in BOOLEAN :
          /\ call.op = "resolve_path" => f = allow_all_paths /\ u = FALSE
          /\ self = SymlinkWalk(f, u)
    /\ slw = SymlinkWalk(allow_all_paths, FALSE)
    /\ frames = <<>>
    /\ ctl = Ctl("start", "self", PathRef(Root), "", "")
    /\ yielded = <<>>
    /\ result = NoOutcome
    /\ raised = ""
    /\ log = <<>>
    /\ prev = <<>>
    /\ cmp = NoCompare

---------------------------------------------------------------------------
(* Actions *)

Env == <<fs, order, call, prev, cmp>>

\* resolve_path(), lines 183-212: expand "~", allocate the temporary
\* SymlinkWalk, seed its element stack and start _scan() on the first path.
\* iter_dir() and iter_tree() enter here unless resolved=True.
resolve_path ==
    /\ ctl.at = "start"
    /\ call.op = "resolve_path" \/ ~call.resolved
    /\ LET pathRef == IF call.expand_user THEN expanduser(call.path) ELSE call.path
           parts == IF pathRef.base = "abs" THEN pathRef.segs
                    ELSE IF pathRef.base = "home" THEN <<"~">> \o pathRef.segs
                    ELSE pathRef.segs
           newPath == IF pathRef.base = "abs" THEN PathRef(Root) ELSE PathRef(Cwd)
       IN  /\ slw' = [SymlinkWalk(allow_all_paths, FALSE) EXCEPT
                         !._elem_stack = [i \in 1..Len(parts) |-> Elem(Reverse(parts)[i])]]
           /\ ctl' = Ctl("scan", "slw", newPath, "", "")
    /\ UNCHANGED <<Env, self, frames, yielded, result, raised, log>>

\* Closing the abandoned generator: every suspended _scan() runs its finally
RECURSIVE CloseGen(_, _)
CloseGen(d, fr) ==
    IF fr = <<>> THEN d
    ELSE CloseGen(IF Last(fr).k = "scan" THEN Finally(d, Last(fr).symlink).d ELSE d, Front(fr))

\* The exception resolve_path(strict=True) raises for a bad path
StrictError(badPath) ==
    IF is_recursive_link(badPath) THEN "RecursiveLinkError"
    ELSE IF is_broken_link(badPath) THEN "BrokenLinkError"
    ELSE "FileNotFoundError"

\* resolve_path(), lines 211-238: next() on the generator gave a path, or
\* StopIteration, or another exception
resolve_path_return ==
    /\ ctl.on = "slw"
    /\ ctl.at = "yield" \/ (ctl.at \in {"next", "exc"} /\ frames = <<>>)
    /\ LET exc == IF ctl.at = "exc" THEN ctl.exc
                  ELSE IF ctl.at = "yield" THEN ""
                  ELSE IF slw.bad_paths = {} THEN "StopIteration"
                  ELSE IF call.op = "resolve_path" /\ call.strict
                       THEN StrictError(CHOOSE b \in slw.bad_paths : TRUE)
                  ELSE ""
           res == IF exc # "" THEN NoOutcome
                  ELSE IF ctl.at = "yield" THEN Outcome("PathRef", ctl.ref.segs)
                  ELSE CHOOSE b \in slw.bad_paths : TRUE
       IN  /\ result' = res
           /\ slw' = CloseGen(slw, frames)
           /\ frames' = <<>>
           /\ IF exc # "" \/ call.op = "resolve_path"
              THEN raised' = exc /\ ctl' = Ctl("done", "self", PathRef(Root), "", "")
              ELSE raised' = raised /\ ctl' = Ctl("target", "self", PathRef(Root), "", "")
    /\ UNCHANGED <<Env, self, yielded, log>>

\* iter_dir() / iter_tree() with resolved=True: target = pathRef
iter_resolved ==
    /\ ctl.at = "start"
    /\ call.op # "resolve_path" /\ call.resolved
    /\ result' = Outcome("PathRef", AbsOf(call.path))
    /\ ctl' = Ctl("target", "self", PathRef(Root), "", "")
    /\ UNCHANGED <<Env, self, slw, frames, yielded, raised, log>>

\* iter_dir(), lines 290-306
iter_dir ==
    /\ ctl.at = "target"
    /\ call.op = "iter_dir"
    /\ IF ~call.resolved /\ ~outcome_exists(result)
       THEN /\ self' = [self EXCEPT !.bad_paths = SetAdd(@, result)]
            /\ ctl' = Ctl("done", "self", PathRef(Root), "", "")
            /\ UNCHANGED <<frames, log>>
       ELSE IF is_dir(AbsOf(call.path))
       THEN /\ self' = [self EXCEPT !._yield_fn = "_yield_path"]
            /\ frames' = <<DirFrame(AbsOf(call.path), scandir(AbsOf(call.path)))>>
            /\ log' = Append(log, Ev("scandir", AbsOf(call.path), <<>>))
            /\ ctl' = Ctl("next", "self", PathRef(Root), "", "")
       ELSE /\ ctl' = Ctl("done", "self", PathRef(Root), "", "")
            /\ UNCHANGED <<self, frames, log>>
    /\ UNCHANGED <<Env, slw, yielded, result, raised>>

\* iter_tree(), lines 323-330: _yield_contents(target) yields target first
iter_tree ==
    /\ ctl.at = "target"
    /\ call.op = "iter_tree"
    /\ IF ~call.resolved /\ ~outcome_exists(result)
       THEN /\ self' = [self EXCEPT !.bad_paths = SetAdd(@, result)]
            /\ ctl' = Ctl("done", "self", PathRef(Root), "", "")
            /\ UNCHANGED yielded
       ELSE /\ self' = [self EXCEPT !._yield_fn = "_yield_contents"]
            /\ yielded' = Append(yielded, result.segs)
            /\ ctl' = Ctl("yield", "self", PathRef(result.segs), "", "_yield_contents")
    /\ UNCHANGED <<Env, slw, frames, result, raised, log>>

\* One invocation of _scan(ctl.ref), up to its return, its recursive call,
\* its first yield or its exception
scan ==
    /\ ctl.at = "scan"
    /\ Len(frames) < MaxDepth
    /\ LET d == IF ctl.on = "slw" THEN slw ELSE self
           r == _scan(d, ctl.ref)
           fr == ScanFrame(r.symlink, ctl.ref, d)
       IN  /\ IF ctl.on = "slw"
              THEN slw' = r.d /\ self' = self
              ELSE self' = r.d /\ slw' = slw
           /\ log' = log \o r.ev
           /\ frames' = IF r.out \in {"call", "yield"} THEN Append(frames, fr) ELSE frames
           /\ yielded' = IF r.out = "yield" /\ ctl.on = "self"
                         THEN Append(yielded, r.ref.segs) ELSE yielded
           /\ ctl' = IF r.out = "return" THEN Ctl("next", ctl.on, r.ref, "", "")
                     ELSE IF r.out = "raise" THEN Ctl("exc", ctl.on, r.ref, r.exc, "")
                     ELSE IF r.out = "call" THEN Ctl("scan", ctl.on, r.ref, "", "")
                     ELSE Ctl("yield", ctl.on, r.ref, "", r.d._yield_fn)
    /\ UNCHANGED <<Env, result, raised>>

\* The consumer asks for the next path: the yield function resumes after its
\* yield.  _yield_contents() opens the directory it has just yielded.
yield_fn_resume ==
    /\ ctl.at = "yield"
    /\ ctl.on = "self"
    /\ IF ctl.fn = "_yield_contents" /\ is_dir(ctl.ref.segs)
       THEN /\ Len(frames) < MaxDepth
            /\ frames' = Append(frames, DirFrame(ctl.ref.segs, scandir(ctl.ref.segs)))
            /\ log' = Append(log, Ev("scandir", ctl.ref.segs, <<>>))
       ELSE UNCHANGED <<frames, log>>
    /\ ctl' = Ctl("next", "self", ctl.ref, "", "")
    /\ UNCHANGED <<Env, self, slw, yielded, result, raised>>

\* for entry in sd: yield from self._scan(PathRef(entry))
scandir_next ==
    /\ ctl.at = "next"
    /\ frames # <<>> /\ Last(frames).k = "dir" /\ Last(frames).todo # <<>>
    /\ LET top == Last(frames)
       IN  /\ frames' = [frames EXCEPT ![Len(frames)].todo = Tail(@)]
           /\ ctl' = Ctl("scan", ctl.on, EntryRef(Append(top.dir, Head(top.todo))), "", "")
    /\ UNCHANGED <<Env, self, slw, yielded, result, raised, log>>

\* The listing is exhausted, or an exception passes through the with block:
\* the scandir handle is closed
scandir_close ==
    /\ frames # <<>> /\ Last(frames).k = "dir"
    /\ (ctl.at = "next" /\ Last(frames).todo = <<>>) \/ ctl.at = "exc"
    /\ frames' = Front(frames)
    /\ log' = Append(log, Ev("close", Last(frames).dir, <<>>))
    /\ UNCHANGED <<Env, self, slw, ctl, yielded, result, raised>>

\* The generator a suspended _scan() delegated to is exhausted, or raised:
\* _scan() runs its finally clause and returns, or raises
scan_finally ==
    /\ ctl.at \in {"next", "exc"}
    /\ frames # <<>> /\ Last(frames).k = "scan"
    /\ LET d == IF ctl.on = "slw" THEN slw ELSE self
           f == Finally(d, Last(frames).symlink)
       IN  /\ IF ctl.on = "slw"
              THEN slw' = f.d /\ self' = self
              ELSE self' = f.d /\ slw' = slw
           /\ ctl' = IF f.exc # "" THEN Ctl("exc", ctl.on, ctl.ref, f.exc, "") ELSE ctl
    /\ frames' = Front(frames)
    /\ UNCHANGED <<Env, yielded, result, raised, log>>

\* The generator of iter_dir() / iter_tree() ends: exhausted, or by the
\* exception that reaches the consumer
finish ==
    /\ ctl.on = "self"
    /\ ctl.at \in {"next", "exc"}
    /\ frames = <<>>
    /\ raised' = IF ctl.at = "exc" THEN ctl.exc ELSE raised
    /\ ctl' = Ctl("done", "self", PathRef(Root), "", "")
    /\ UNCHANGED <<Env, self, slw, frames, yielded, result, log>>

\* The exception that closing the suspended frames fr ends with ("" when none)
RECURSIVE CloseExc(_, _)
CloseExc(d, fr) ==
    IF fr = <<>> THEN ""
    ELSE LET f == IF Last(fr).k = "scan" THEN Finally(d, Last(fr).symlink)
                  ELSE [d |-> d, exc |-> ""]
             outer == CloseExc(f.d, Front(fr))
         IN  IF outer # "" THEN outer ELSE f.exc

\* Closing a generator that leaves every scandir handle open
CloseHandles_none(fr) == <<>>

\* The scandir handles that closing the suspended frames fr releases: each
\* with block is left, innermost first
RECURSIVE CloseHandles(_)
CloseHandles(fr) ==
    IF fr = <<>> THEN <<>>
    ELSE (IF Last(fr).k = "dir" THEN <<Ev("close", Last(fr).dir, <<>>)>> ELSE <<>>)
             \o CloseHandles(Front(fr))

\* The consumer abandons the generator of iter_dir() / iter_tree() while it
\* is suspended on a yield: generator.close() raises GeneratorExit there, and
\* every suspended frame is left through its finally clause or with block
abandon ==
    /\ ctl.at = "yield"
    /\ ctl.on = "self"
    /\ self' = CloseGen(self, frames)
    /\ log' = log \o CloseHandles(frames)
    /\ frames' = <<>>
    /\ raised' = CloseExc(self, frames)
    /\ ctl' = Ctl("closed", "self", PathRef(Root), "", "")
    /\ UNCHANGED <<Env, slw, yielded, result>>

\* A reset() that forgets to clear path_hits
Reset_keeps_hits(d) ==
    [d EXCEPT !.bad_paths = {}, !.skipped = {}, !._symlinks = <<>>, !._elem_stack = clear(@)]

\* SymlinkWalk.reset()
Reset(d) ==
    [d EXCEPT !.path_hits = <<>>, !.bad_paths = {}, !.skipped = {},
              !._symlinks = <<>>, !._elem_stack = clear(@)]

\* What a finished run leaves to be seen
RunRecord ==
    [call |-> call, path_filter |-> self.path_filter, yield_unique |-> self.yield_unique,
     yielded |-> yielded, result |-> result, raised |-> raised,
     path_hits |-> self.path_hits, bad_paths |-> self.bad_paths, skipped |-> self.skipped]

\* The consumer calls reset() (or leaves the with block, which calls it) after
\* its call has ended, and makes the same call again
reset ==
    /\ ctl.at = "done"
    /\ Len(prev) < MaxResets
    /\ prev' = Append(prev, RunRecord)
    /\ self' = Reset(self)
    /\ ctl' = Ctl("start", "self", PathRef(Root), "", "")
    /\ yielded' = <<>>
    /\ result' = NoOutcome
    /\ raised' = ""
    /\ log' = <<>>
    /\ UNCHANGED <<fs, order, call, slw, frames, cmp>>

\* The input joined to the working directory with its ".." segments
\* collapsed: os.path.normpath(os.path.join(os.getcwd(), path))
PreNormalized(path) == In("abs", Normpath(Cwd \o path.segs))

\* The consumer, having resolved a relative path with ".." segments, resolves
\* its pre-normalized absolute equivalent
resolve_prenormalized ==
    /\ ctl.at = "done"
    /\ call.op = "resolve_path" /\ call.path.base = "rel" /\ ".." \in Range(call.path.segs)
    /\ Len(prev) < MaxResets
    /\ prev' = Append(prev, RunRecord)
    /\ call' = [call EXCEPT !.path = PreNormalized(call.path)]
    /\ ctl' = Ctl("start", "self", PathRef(Root), "", "")
    /\ yielded' = <<>>
    /\ result' = NoOutcome
    /\ raised' = ""
    /\ log' = <<>>
    /\ UNCHANGED <<fs, order, self, slw, frames, cmp>>

Next ==
    \/ resolve_path
    \/ resolve_path_return
    \/ iter_resolved
    \/ iter_dir
    \/ iter_tree
    \/ scan
    \/ yield_fn_resume
    \/ scandir_next
    \/ scandir_close
    \/ scan_finally
    \/ finish
    \/ abandon
    \/ reset
    \/ resolve_prenormalized

Spec == Init /\ [][Next]_vars

\* The interpreter always runs the code on: a call that can take a step does
FairSpec == Spec /\ WF_vars(Next)

Done == ctl.at = "done"

---------------------------------------------------------------------------
(* Vocabulary of the properties *)

IsIter == call.op \in {"iter_dir", "iter_tree"}

\* The guard stack of the instance the running generator works on
Guard == (IF ctl.on = "slw" THEN slw ELSE self)._symlinks

\* The suspended _scan() invocations
ScanFrames == {i \in 1..Len(frames) : frames[i].k = "scan"}

\* The path a symlink's stored target names, read from the symlink at node l
StoredTarget(l) == (IF fs[l].abs THEN Root ELSE Parent(l)) \o fs[l].segs

\* Path p is a symlink whose stored target does not exist: the directory the
\* target would be in is there, the target's last name is not
Dangling(p) ==
    /\ is_symlink(p)
    /\ LET t == StoredTarget(Lstat(p)[1])
       IN  t # <<>> /\ Stat(Parent(t)) # <<>> /\ Lstat(t) = <<>>

\* Path p is a symlink that resolves to the directory holding it, or to an
\* ancestor of that directory
LoopLink(p) ==
    /\ is_symlink(p)
    /\ Stat(p) # <<>>
    /\ IsPrefix(Stat(p)[1], Parent(Lstat(p)[1]))

\* How often the walk has read the stored target of the symlink at p
Follows(p) == Cardinality({i \in 1..Len(log) : log[i].ev = "follow" /\ log[i].segs = p})

\* The entries of the directories the walk has listed
Entries ==
    UNION {{Append(log[i].segs, n) : n \in Range(scandir(log[i].segs))} :
              i \in {k \in 1..Len(log) : log[k].ev = "scandir"}}

\* The nodes one step from node n: a directory's entries; for a symlink, the
\* node its stored target names and the symlinks passed on the way there
Edges(n) ==
    IF fs[n].kind = "dir"
    THEN {q \in DOMAIN fs : q # <<>> /\ Parent(q) = n /\ Present(fs, q)}
    ELSE IF fs[n].kind = "link"
    THEN LET base == IF fs[n].abs THEN Root ELSE Parent(n)
             segs == fs[n].segs
         IN  IF segs = <<>> THEN {base}
             ELSE {q \in DOMAIN fs :
                      \E k \in 1..Len(segs) :
                         LET l == Lstat(base \o SubSeq(segs, 1, k))
                         IN  /\ l = <<q>>
                             /\ k = Len(segs) \/ fs[q].kind = "link"}
    ELSE {}
RECURSIVE ReachFrom(_, _)
ReachFrom(S, k) ==
    IF k = 0 THEN S ELSE ReachFrom(S \cup UNION {Edges(n) : n \in S}, k - 1)
\* No node leads back to itself
Acyclic ==
    \A n \in DOMAIN fs :
        Present(fs, n) => n \notin ReachFrom(Edges(n), Cardinality(DOMAIN fs))
NoSymlinks == \A p \in DOMAIN fs : fs[p].kind # "link"

\* The resolved paths reachable from directory or file t by listing
\* directories and resolving every entry as the operating system does
RECURSIVE OsReach(_, _)
OsReach(S, k) ==
    IF k = 0 THEN S
    ELSE OsReach(S \cup UNION {{Stat(Append(dd, n))[1] :
                                   n \in {m \in Range(scandir(dd)) : Stat(Append(dd, m)) # <<>>}} :
                               dd \in {x \in S : fs[x].kind = "dir"}}, k - 1)

\* The entries below t that a walk from t comes to when it descends only
\* through accepted directories, in a tree without symlinks
Accepted(p) == Name(p) \notin self.path_filter
TreeBelow(t) ==
    {t} \cup {p \in DOMAIN fs :
                /\ Present(fs, p) /\ IsPrefix(t, p) /\ p # t
                /\ \A k \in (Len(t) + 1)..Len(p) : Accepted(SubSeq(p, 1, k))
                /\ \A k \in Len(t)..(Len(p) - 1) : fs[SubSeq(p, 1, k)].kind = "dir"}

\* Every yielded path comes after each yielded path that is a proper prefix
\* of it: a directory is yielded before its descendants
PreOrder(y) ==
    \A i, j \in 1..Len(y) :
        (y[i] # y[j] /\ IsPrefix(y[i], y[j])) => \E k \in 1..(j - 1) : y[k] = y[i]
NoDuplicates(y) == \A i, j \in 1..Len(y) : i # j => y[i] # y[j]

---------------------------------------------------------------------------
(* The properties *)

\* C1: every traversal is finite.  The code is deterministic and the
\* filesystem does not change, so an invocation of _scan() nested inside an
\* unfinished invocation that was called with the same path on the same
\* guard, element stack and hit counts repeats it without end; a traversal
\* that ends never holds such a pair.
C1_TraversalFinite ==
    \A i, j \in ScanFrames :
        i < j => ~(/\ frames[i].ref = frames[j].ref
                   /\ frames[i].g0 = frames[j].g0
                   /\ frames[i].e0 = frames[j].e0
                   /\ frames[i].h0 = frames[j].h0)

\* The walks MaxDepth cuts short are walks that hold such a pair
MaxDepthCutsOnlyRepeats ==
    (Len(frames) >= MaxDepth /\ ctl.at \in {"scan", "yield"}) => ~C1_TraversalFinite

\* C2: a call that is not strict never raises: no exception leaves _scan()
\* and none reaches the consumer.
C2_NonStrictNeverRaises ==
    ~call.strict => (raised = "" /\ ctl.at # "exc")

\* C3: the guard stack is balanced.  An invocation of _scan() that ends
\* without yielding leaves the guard as it found it, an invocation that ends
\* later has restored the guard it was called with, and the guard is empty
\* when the call is over.
C3_GuardBalanced ==
    [][ /\ (ctl.at = "scan" /\ ctl'.at \in {"next", "exc"}) => Guard' = Guard
        /\ (ctl.at \in {"next", "exc"} /\ frames # <<>> /\ Last(frames).k = "scan")
              => Guard' = Last(frames).g0
        /\ ctl'.at = "done" => (self'._symlinks = <<>> /\ slw'._symlinks = <<>>) ]_vars

\* C4: iter_tree() without uniqueness, on a resolved directory: a symlink in
\* a walked directory that leads to that directory or to an ancestor of it is
\* followed once, its second encounter is recorded as a RecursiveLink, and
\* the walk completes.
C4_RecursiveLinkFollowedOnce ==
    (call.op = "iter_tree" /\ call.resolved /\ ~self.yield_unique) =>
        \A p \in Entries :
            (LoopLink(p) /\ Follows(p) > 0) =>
                /\ Follows(p) = 1
                /\ ctl.at # "exc"
                /\ Done => /\ raised = ""
                           /\ Outcome("RecursiveLink", p) \in self.bad_paths

\* C5: with a -> b and b -> a, resolve_path(a) returns a RecursiveLink that
\* names one of the two.
C5_MutualLinksRecursive ==
    (/\ Done /\ call.op = "resolve_path" /\ ~call.strict
     /\ AbsOf(call.path) = <<"d", "a">>
     /\ fs[<<"d", "a">>] = Link(FALSE, <<"b">>)
     /\ fs[<<"d", "b">>] = Link(FALSE, <<"a">>))
        => /\ raised = ""
           /\ is_recursive_link(result)
           /\ result.segs \in {<<"d", "a">>, <<"d", "b">>}

\* C6: resolve_path() on a symlink whose stored target does not exist returns
\* a BrokenLink whose path is the symlink.
C6_DanglingLinkBroken ==
    (/\ Done /\ call.op = "resolve_path" /\ ~call.strict
     /\ Dangling(AbsOf(call.path)))
        => /\ raised = ""
           /\ result = Outcome("BrokenLink", AbsOf(call.path))

\* C7: iter_dir() and iter_tree(), every path accepted and uniqueness off: a
\* listed entry that is a symlink whose stored target does not exist is
\* recorded in bad_paths as a BrokenLink whose path is the entry, and is
\* never yielded.
C7_BrokenEntryRecorded ==
    (/\ IsIter /\ Done /\ raised = ""
     /\ self.path_filter = allow_all_paths /\ ~self.yield_unique) =>
        \A p \in Entries :
            Dangling(p) => /\ p \notin Range(yielded)
                           /\ Outcome("BrokenLink", p) \in self.bad_paths

\* C8: a BrokenLink names the symlink whose stored target held the name that
\* could not be resolved, also when intact symlinks were followed on the way.
C8_BrokenLinkNamesOrigin ==
    \A i \in 1..Len(log) :
        log[i].ev = "broken" => log[i].segs = log[i].origin

\* C9: resolve_path(strict=True) never returns a bad path; it raises
\* RecursiveLinkError for a recursive link, BrokenLinkError for a broken
\* link, FileNotFoundError for a missing path.
C9_StrictRaises ==
    (Done /\ call.op = "resolve_path" /\ call.strict) =>
        /\ result.kind \in {"PathRef", "none"}
        /\ slw.bad_paths = {} => (raised = "" /\ result.kind = "PathRef")
        /\ \A b \in slw.bad_paths :
              /\ b.kind = "RecursiveLink" => raised = "RecursiveLinkError"
              /\ b.kind = "BrokenLink" => raised = "BrokenLinkError"
              /\ b.kind = "MissingPath" => raised = "FileNotFoundError"

C11_UniqueNeverRepeats ==
    (IsIter /\ self.yield_unique) => NoDuplicates(yielded)

\* How often path p has been yielded, and how often it has been listed
Count(y, p) == Cardinality({i \in 1..Len(y) : y[i] = p})
Listings(p) == Cardinality({i \in 1..Len(log) : log[i].ev = "scandir" /\ log[i].segs = p})

\* Listed entry bar is a symlink whose stored target names the directory foo
\* next to it, foo is a listed entry too, and the filter accepts both
LinkBesideDir(bar, foo) ==
    /\ bar \in Entries /\ foo \in Entries
    /\ bar \in DOMAIN fs /\ foo \in DOMAIN fs
    /\ fs[bar].kind = "link" /\ ~fs[bar].abs /\ Len(fs[bar].segs) = 1
    /\ foo = Append(Parent(bar), fs[bar].segs[1])
    /\ fs[foo].kind = "dir"
    /\ Accepted(bar) /\ Accepted(foo)

\* C12: with uniqueness on, when a directory foo and a symlink bar -> foo
\* have both been visited in a traversal, whichever came first, foo has been
\* yielded exactly once and listed at most once, each file or directory in
\* foo that the filter accepts has been yielded exactly once by iter_tree(),
\* and path_hits counts foo at least twice.
C12_LinkedDirYieldedOnce ==
    (IsIter /\ call.resolved /\ self.yield_unique /\ Done /\ raised = "") =>
        \A bar, foo \in Entries :
            LinkBesideDir(bar, foo) =>
                /\ Count(yielded, foo) = 1
                /\ Listings(foo) <= 1
                /\ foo \in DOMAIN self.path_hits /\ self.path_hits[foo] >= 2
                /\ call.op = "iter_tree" =>
                      /\ Listings(foo) = 1
                      /\ \A p \in DOMAIN fs :
                            (/\ p # <<>> /\ Parent(p) = foo /\ Accepted(p)
                             /\ fs[p].kind \in {"file", "dir"})
                                => Count(yielded, p) = 1

\* The candidate _scan() tests when called with pathRef: a trailing ".." is
\* collapsed first
Candidate(pathRef) == collapse_dotdot(pathRef).segs

\* C13: a path the filter rejects is never yielded by iter_dir() or
\* iter_tree(), the starting target included, and iter_tree() issues no
\* directory listing for it; when _scan() comes to an existing candidate the filter
\* rejects, it records it in skipped, discards the pending segments and ends
\* the branch without yielding or listing anything.
C13_RejectedNeverWalked ==
    [][ IsIter =>
          /\ \A i \in 1..Len(yielded') : Accepted(yielded'[i])
          /\ call.op = "iter_tree" =>
                \A i \in 1..Len(log') : log'[i].ev = "scandir" => Accepted(log'[i].segs)
          /\ (/\ ctl.at = "scan" /\ ctl.on = "self"
              /\ exists(ctl.ref) /\ ~Accepted(Candidate(ctl.ref)))
                 => /\ Candidate(ctl.ref) \in self'.skipped
                    /\ self'._elem_stack = <<>>
                    /\ ctl'.at = "next"
                    /\ frames' = frames /\ yielded' = yielded /\ log' = log ]_vars

\* C14: reset() after a finished traversal empties path_hits, bad_paths,
\* skipped, the guard and the element stack and leaves path_filter and
\* yield_unique as they were; the same call made again on the unchanged
\* filesystem ends with the same yielded sequence, the same exception or
\* none, and the same bad_paths, skipped and hit counts as the first run.
C14_ResetThenSameRun ==
    prev # <<>> =>
        /\ self.path_filter = Last(prev).path_filter
        /\ self.yield_unique = Last(prev).yield_unique
        /\ ctl.at = "start" =>
              /\ self.path_hits = <<>> /\ self.bad_paths = {} /\ self.skipped = {}
              /\ self._symlinks = <<>> /\ self._elem_stack = <<>>
        /\ (Done /\ call = Last(prev).call) => RunRecord = Last(prev)
\* C14: a traversal in uniqueness mode that yielded paths, counted a
\* duplicate and recorded a bad path has been repeated after reset()
C14_RepeatedRun ==
    /\ Done /\ prev # <<>> /\ IsIter /\ call = Last(prev).call
    /\ self.yield_unique /\ self.path_filter # allow_all_paths
    /\ Len(yielded) >= 2
    /\ \E p \in DOMAIN self.path_hits : self.path_hits[p] >= 2
    /\ self.bad_paths # {} /\ self.skipped # {}

\* The input path of resolve_path() as the operating system reads it once
\* "~" is expanded
InputSegs ==
    LET pathRef == IF call.expand_user THEN expanduser(call.path) ELSE call.path
    IN  AbsOf(pathRef)
\* The number of leading segments of the input that resolve
ResolvedLen ==
    CHOOSE k \in 0..Len(InputSegs) :
        /\ \A j \in 0..k : Stat(SubSeq(InputSegs, 1, j)) # <<>>
        /\ k < Len(InputSegs) => Stat(SubSeq(InputSegs, 1, k + 1)) = <<>>
\* The resolved prefix the lookup reaches
ResolvedPrefix == Stat(SubSeq(InputSegs, 1, ResolvedLen))[1]
\* Resolution fails on a segment of the input itself: the next segment names
\* nothing in the resolved prefix, not even a symlink
PlainMiss ==
    /\ ResolvedLen < Len(InputSegs)
    /\ Lstat(Append(ResolvedPrefix, InputSegs[ResolvedLen + 1])) = <<>>

\* C15: when resolve_path() fails on a segment that is not from a symlink's
\* stored target, it returns a MissingPath (exists() False, is_broken_link()
\* False) whose path is the resolved prefix, then the segment that does not
\* exist, then the pending segments in their original order.
C15_MissingKeepsTail ==
    (Done /\ call.op = "resolve_path" /\ ~call.strict /\ PlainMiss) =>
        /\ raised = ""
        /\ result.kind = "MissingPath"
        /\ result.segs = ResolvedPrefix
                           \o SubSeq(InputSegs, ResolvedLen + 1, Len(InputSegs))
        /\ ~outcome_exists(result) /\ ~is_broken_link(result)
\* C15: resolve_path() has returned for an input that failed with two
\* segments still pending
C15_MissedWithTail ==
    /\ Done /\ call.op = "resolve_path" /\ ~call.strict /\ PlainMiss
    /\ result.kind = "MissingPath"
    /\ Len(InputSegs) - ResolvedLen >= 3

\* In relative path segs every ".." follows a prefix that resolves, without
\* passing a symlink, to the directory it names
DotsAreLexical(segs) ==
    \A k \in 1..Len(segs) :
        segs[k] = ".." =>
            LET pre == Cwd \o SubSeq(segs, 1, k - 1)
            IN  Stat(pre) = <<Normpath(pre)>> /\ fs[Normpath(pre)].kind = "dir"

\* The call before this one was resolve_path() on a relative path with ".."
\* segments, this one is on its pre-normalized absolute equivalent
AfterPreNormalized ==
    /\ prev # <<>> /\ call.op = "resolve_path"
    /\ Last(prev).call.path.base = "rel"
    /\ call.path = PreNormalized(Last(prev).call.path)

\* C16, as stated: resolving a relative path with ".." segments and resolving
\* its pre-normalized absolute equivalent end alike: the same class of
\* outcome with the same path, or the same exception.
C16_DotDotRoundTrip ==
    (Done /\ AfterPreNormalized) =>
        (result = Last(prev).result /\ raised = Last(prev).raised)

\* C16, amended: they end alike when every ".." of the relative path follows
\* a prefix that resolves to the directory it names without passing a
\* symlink, as leading ".." segments do.
C16_LexicalDotDotRoundTrip ==
    (Done /\ AfterPreNormalized /\ DotsAreLexical(Last(prev).call.path.segs)) =>
        (result = Last(prev).result /\ raised = Last(prev).raised)
\* C16: both calls have returned a good path for a relative path that begins
\* with ".."
C16_BothResolved ==
    /\ Done /\ AfterPreNormalized
    /\ Last(prev).call.path.segs[1] = ".."
    /\ DotsAreLexical(Last(prev).call.path.segs)
    /\ result.kind = "PathRef" /\ Last(prev).result = result

\* A path that exists and names itself: no component of it is a symlink
FullyResolved(p) == Stat(p) = <<p>>

\* iter_dir(path, resolved=False) has resolved its path and acted on the outcome
IterDirUnresolvedActed ==
    /\ call.op = "iter_dir" /\ ~call.resolved /\ raised = ""
    /\ ctl.on = "self" /\ ctl.at \notin {"start", "target"}

\* C17: iter_dir(path, resolved=False) resolves the path first; a failed
\* resolution is recorded in bad_paths and nothing is yielded, a target that
\* is not a directory yields nothing, and otherwise the children of the
\* resolved target are listed, so every yielded path exists and has no
\* symlink component.
C17_IterDirYieldsResolved ==
    IterDirUnresolvedActed =>
        /\ ~outcome_exists(result) =>
              (yielded = <<>> /\ \E b \in self.bad_paths : b = result)
        /\ (outcome_exists(result) /\ ~is_dir(result.segs)) => yielded = <<>>
        /\ \A i \in 1..Len(yielded) :
              /\ FullyResolved(yielded[i])
              /\ Parent(yielded[i]) = result.segs

---------------------------------------------------------------------------
(* The manual walk: the consumer calls iter_dir(child, resolved=True) on the
   same driver for every directory an iter_dir() generator yields, while that
   generator stays suspended on its yield *)

\* The consumer's loop over an iter_dir() generator, suspended on the child
\* the generator yielded while the consumer walks that child
WalkFrame(child) ==
    [k |-> "walk", symlink |-> FALSE, ref |-> child,
     g0 |-> <<>>, e0 |-> <<>>, h0 |-> <<>>,
     dir |-> <<>>, todo |-> <<>>]

WalkCalls == {Call("iter_dir", In("abs", <<"d">>), TRUE, TRUE, FALSE)}

WalkInit == Init /\ call \in WalkCalls

\* The yielded child is not a directory: the consumer asks the generator for
\* the next path
walk_resume ==
    /\ ~is_dir(ctl.ref.segs)
    /\ yield_fn_resume

\* The yielded child is a directory: the consumer calls
\* iter_dir(child, resolved=True), lines 296-306, on the same driver
walk_descend ==
    /\ ctl.at = "yield"
    /\ ctl.on = "self"
    /\ is_dir(ctl.ref.segs)
    /\ Len(frames) + 1 < MaxDepth
    /\ self' = [self EXCEPT !._yield_fn = "_yield_path"]
    /\ frames' = frames \o <<WalkFrame(ctl.ref),
                             DirFrame(ctl.ref.segs, scandir(ctl.ref.segs))>>
    /\ log' = Append(log, Ev("scandir", ctl.ref.segs, <<>>))
    /\ ctl' = Ctl("next", "self", PathRef(Root), "", "")
    /\ UNCHANGED <<Env, slw, yielded, result, raised>>

\* The nested generator ends.  Exhausted: the consumer's loop over the outer
\* generator asks it for the next path.  By an exception: the exception
\* leaves the consumer's loops, and the suspended outer generators are closed.
walk_return ==
    /\ ctl.on = "self"
    /\ ctl.at \in {"next", "exc"}
    /\ frames # <<>> /\ Last(frames).k = "walk"
    /\ IF ctl.at = "next"
       THEN /\ frames' = Front(frames)
            /\ ctl' = Ctl("next", "self", Last(frames).ref, "", "")
            /\ UNCHANGED <<self, raised>>
       ELSE /\ frames' = <<>>
            /\ self' = CloseGen(self, frames)
            /\ raised' = ctl.exc
            /\ ctl' = Ctl("done", "self", PathRef(Root), "", "")
    /\ UNCHANGED <<Env, slw, yielded, result, log>>

WalkNext ==
    \/ iter_resolved
    \/ iter_dir
    \/ scan
    \/ walk_resume
    \/ walk_descend
    \/ walk_return
    \/ scandir_next
    \/ scandir_close
    \/ scan_finally
    \/ finish

WalkSpec == WalkInit /\ [][WalkNext]_vars

\* The suspended _scan() invocations that are following a symlink
FollowingFrames == {i \in ScanFrames : frames[i].symlink}

\* The walk can go no further within MaxDepth suspended invocations
WalkCut ==
    \/ ctl.at = "scan" /\ Len(frames) >= MaxDepth
    \/ ctl.at = "yield" /\ is_dir(ctl.ref.segs) /\ Len(frames) + 1 >= MaxDepth

\* C18: in a manual walk with nested iter_dir(child, resolved=True) calls on
\* one driver, no symlink is followed again while an earlier following of it
\* is still suspended (its second encounter is recorded as RecursiveLink
\* instead), the walk comes to an end, and no exception reaches the consumer.
C18_ManualWalkEndsNormally ==
    /\ \A i, j \in FollowingFrames :
          i # j => frames[i].ref.segs # frames[j].ref.segs
    /\ ~WalkCut
    /\ raised = ""

---------------------------------------------------------------------------
(* Classification records *)

\* The instance the running _scan() belongs to
Driver == IF ctl.on = "slw" THEN slw ELSE self

\* The paths whose hit count an invocation raised
Incremented(d, e) ==
    {p \in DOMAIN d.path_hits : p \in DOMAIN e.path_hits /\ e.path_hits[p] = d.path_hits[p] + 1}

\* The number of classification records between the instance d and the
\* instance e that one invocation of _scan() turned it into
Records(d, e) ==
    Cardinality(e.bad_paths \ d.bad_paths) + Cardinality(e.skipped \ d.skipped)
        + Cardinality(Incremented(d, e))

\* The record for pathRef is one the set-valued containers of d hold already
AlreadyRecorded(d, pathRef) ==
    \/ Candidate(pathRef) \in d.skipped
    \/ \E b \in d.bad_paths :
          \/ ~exists(pathRef) /\ b.segs = BadPathOf(d, pathRef).segs
          \/ b.segs = Candidate(pathRef)

\* resolve_path() has ended with exactly one outcome: a good path, or the one
\* bad path its temporary instance holds (raised as its error when strict)
OneOutcome ==
    \/ result.kind = "PathRef" /\ raised = ""
    \/ /\ slw.bad_paths # {} /\ \A b, c \in slw.bad_paths : b = c
       /\ IF call.strict
          THEN result = NoOutcome /\ raised = StrictError(CHOOSE b \in slw.bad_paths : TRUE)
          ELSE result \in slw.bad_paths /\ raised = ""

\* C19: an invocation of _scan() that ends without calling itself either
\* yields a path and makes no classification record, or makes exactly one
\* (an entry in skipped, an entry in bad_paths or one hit count raised by
\* one) and yields nothing; and resolve_path() ends with exactly one outcome,
\* its temporary instance holding exactly one bad path when nothing was yielded.
C19_OneRecordOrYield ==
    [][ /\ (ctl.at = "scan" /\ ctl'.at # "scan") =>
              LET d == Driver
                  e == IF ctl.on = "slw" THEN slw' ELSE self'
              IN  IF ctl'.at = "yield" THEN Records(d, e) = 0
                  ELSE /\ ctl'.at = "next"
                       /\ \/ Records(d, e) = 1
                          \/ Records(d, e) = 0 /\ AlreadyRecorded(d, ctl.ref)
        /\ (call.op = "resolve_path" /\ ctl'.at = "done" /\ ctl.at # "done") => OneOutcome'
      ]_vars

---------------------------------------------------------------------------
(* PathRef values: what they wrap, their string, equality, order and hash.
   A string is the sequence of its characters. *)

\* The code points of the characters the model writes paths with
Ord == ("." :> 46) @@ ("/" :> 47) @@ ("A" :> 65) @@ ("B" :> 66) @@ ("a" :> 97)
       @@ ("b" :> 98) @@ ("d" :> 100)
Chr == [n \in {Ord[c] : c \in DOMAIN Ord} |-> CHOOSE c \in DOMAIN Ord : Ord[c] = n]

\* str.encode() / os.fsdecode() of text in these characters
fsencode(s) == [i \in 1..Len(s) |-> Ord[s[i]]]
fsdecode(sb) == [i \in 1..Len(sb) |-> Chr[sb[i]]]

\* str.lower()
lower(s) == [i \in 1..Len(s) |-> IF s[i] = "A" THEN "a" ELSE IF s[i] = "B" THEN "b" ELSE s[i]]

\* s < t for Python strings: the first differing code point decides, a proper
\* prefix is less
RECURSIVE StrLess(_, _)
StrLess(s, t) ==
    IF t = <<>> THEN FALSE
    ELSE IF s = <<>> THEN TRUE
    ELSE IF Head(s) # Head(t) THEN Ord[Head(s)] < Ord[Head(t)]
    ELSE StrLess(Tail(s), Tail(t))

\* The width the model keeps of a hash value
HashBits == 16

\* hash() of a string: a function of its characters alone
RECURSIVE StrHash(_, _)
StrHash(s, h) ==
    IF s = <<>> THEN h ELSE StrHash(Tail(s), (h * 31 + Ord[Head(s)]) % (2 ^ HashBits))

\* The segments pathlib parses a string into: empty segments and "." dropped
RECURSIVE Segments(_, _)
Segments(s, cur) ==
    LET done == IF cur = <<>> \/ cur = <<".">> THEN <<>> ELSE <<cur>>
    IN  IF s = <<>> THEN done
        ELSE IF Head(s) = "/" THEN done \o Segments(Tail(s), <<>>)
        ELSE Segments(Tail(s), Append(cur, Head(s)))

\* str() of a pathlib path: the root, then the segments joined by "/"
RECURSIVE JoinSegments(_)
JoinSegments(parts) ==
    IF parts = <<>> THEN <<>>
    ELSE IF Len(parts) = 1 THEN parts[1]
    ELSE parts[1] \o <<"/">> \o JoinSegments(Tail(parts))
PurePathStr(root, parts) ==
    IF root = <<>> /\ parts = <<>> THEN <<".">> ELSE root \o JoinSegments(parts)

\* os.path.join(dir, name), as os.scandir(dir) builds DirEntry.path
os_path_join(dir, name) ==
    IF dir # <<>> /\ Last(dir) = "/" THEN dir \o name ELSE dir \o <<"/">> \o name

\* What a PathRef may wrap: a str, bytes, a pathlib.Path, an os.DirEntry
StrRef(s) == [type |-> "str", text |-> s, bytes |-> <<>>, root |-> <<>>, parts |-> <<>>]
BytesRef(s) == [type |-> "bytes", text |-> <<>>, bytes |-> fsencode(s), root |-> <<>>, parts |-> <<>>]
Path(s) ==
    [type |-> "Path", text |-> <<>>, bytes |-> <<>>,
     root |-> IF s # <<>> /\ Head(s) = "/" THEN <<"/">> ELSE <<>>,
     parts |-> Segments(s, <<>>)]
DirEntry(dir, name) ==
    [type |-> "DirEntry", text |-> os_path_join(dir, name), bytes |-> <<>>,
     root |-> <<>>, parts |-> <<>>]

\* An instance of PathRef or of one of its subclasses
Instance(cls, ref) == [cls |-> cls, ref |-> ref]

\* src/support/pathref.py, PathRef.__str__(), lines 61-72
__str__(x) ==
    IF x.ref.type = "Path" THEN PurePathStr(x.ref.root, x.ref.parts)
    ELSE IF x.ref.type = "DirEntry" THEN x.ref.text
    ELSE IF x.ref.type = "str" THEN x.ref.text
    ELSE fsdecode(x.ref.bytes)

\* src/support/pathref.py, lines 77-84
__eq__(x, rhs) == __str__(x) = __str__(rhs)
__lt__(x, rhs) == StrLess(lower(__str__(x)), lower(__str__(rhs)))
__hash__(x) == StrHash(__str__(x), 0)

\* src/pathref.py, PathRef.__str__(), lines 27-31
pathref__str__(x) ==
    IF x.ref.type = "str" THEN x.ref.text
    ELSE IF x.ref.type = "DirEntry" THEN x.ref.text
    ELSE PurePathStr(x.ref.root, x.ref.parts)

\* src/pathref.py, lines 36-40: __eq__ is defined; the hash is a method named
\* hash, so the class has no __hash__ (Python sets it to None for a class
\* that defines __eq__ alone), and there is no __lt__
pathref__eq__(x, rhs) == pathref__str__(x) = pathref__str__(rhs)

Texts ==
    { <<"/", "d", "/", "a">>, <<"/", "d", "/", "a", "/">>, <<"/", "d", "/", "/", "a">>,
      <<"/", "d", "/", ".", "/", "a">>, <<"/", "d", "/", "A">>, <<"/", "d", "/", "B">>,
      <<"/", "d", "/", "b">>, <<"/", "d">> }
EntryDirs == { <<"/", "d">>, <<"/", "d", "/">> }
EntryNames == { <<"a">>, <<"A">>, <<"b">> }

RefsOfPathref ==
    {StrRef(s) : s \in Texts} \cup {Path(s) : s \in Texts}
    \cup {DirEntry(dir, name) : dir \in EntryDirs, name \in EntryNames}
RefsOfSupport == RefsOfPathref \cup {BytesRef(s) : s \in Texts}

Classes == {"PathRef", "MissingPath", "BrokenLink", "RecursiveLink"}

\* The PathRef values of each module
Instances(module) ==
    IF module = "support.pathref"
    THEN {Instance(cls, ref) : cls \in Classes, ref \in RefsOfSupport}
    ELSE {Instance("PathRef", ref) : ref \in RefsOfPathref}

Modules == {"support.pathref", "pathref"}

\* The outcome of an expression: its value, or the exception it raised
Value(v) == [raised |-> "", value |-> v]
Raise(exc, v) == [raised |-> exc, value |-> v]

Compare(module, a, b) ==
    [module |-> module, a |-> a, b |-> b, did |-> {},
     eq |-> Value(FALSE), lt |-> Value(FALSE), hash |-> Value(<<0, 0>>)]

PathRefInit ==
    /\ fs = MkFs(NodeAbsent, NodeAbsent, NodeAbsent)
    /\ order = <<"a", "b", "s", "c", "d">>
    /\ call = Call("resolve_path", In("abs", <<"d">>), FALSE, TRUE, FALSE)
    /\ self = SymlinkWalk(allow_all_paths, FALSE)
    /\ slw = SymlinkWalk(allow_all_paths, FALSE)
    /\ frames = <<>>
    /\ ctl = Ctl("start", "self", PathRef(Root), "", "")
    /\ yielded = <<>>
    /\ result = NoOutcome
    /\ raised = ""
    /\ log = <<>>
    /\ prev = <<>>
    /\ \E module \in Modules : \E a, b \in Instances(module) : cmp = Compare(module, a, b)

Walker == <<fs, order, call, self, slw, frames, ctl, yielded, result, raised, log, prev>>

\* a == b
compare_eq ==
    /\ "eq" \notin cmp.did
    /\ cmp' = [cmp EXCEPT !.did = @ \cup {"eq"},
                          !.eq = IF cmp.module = "support.pathref"
                                 THEN Value(__eq__(cmp.a, cmp.b))
                                 ELSE Value(pathref__eq__(cmp.a, cmp.b))]
    /\ UNCHANGED Walker

\* a < b
compare_lt ==
    /\ "lt" \notin cmp.did
    /\ cmp' = [cmp EXCEPT !.did = @ \cup {"lt"},
                          !.lt = IF cmp.module = "support.pathref"
                                 THEN Value(__lt__(cmp.a, cmp.b))
                                 ELSE Raise("TypeError", FALSE)]
    /\ UNCHANGED Walker

\* hash(a), hash(b): what a set or a dict asks of its members and keys
compare_hash ==
    /\ "hash" \notin cmp.did
    /\ cmp' = [cmp EXCEPT !.did = @ \cup {"hash"},
                          !.hash = IF cmp.module = "support.pathref"
                                   THEN Value(<<__hash__(cmp.a), __hash__(cmp.b)>>)
                                   ELSE Raise("TypeError", <<0, 0>>)]
    /\ UNCHANGED Walker

PathRefNext ==
    \/ compare_eq
    \/ compare_lt
    \/ compare_hash

PathRefSpec == PathRefInit /\ [][PathRefNext]_vars

\* The canonical string of a compared value
Canonical(x) == IF cmp.module = "support.pathref" THEN __str__(x) ELSE pathref__str__(x)

\* C20: two PathRef values, whatever they wrap and whatever subclass they
\* are, are equal exactly when their canonical strings are equal; both can be
\* hashed, and equal values have equal hashes; a < b exactly when the
\* lower-cased canonical string of a is lexicographically less than that of b.
C20_EqualHashOrdered ==
    /\ "eq" \in cmp.did =>
          /\ cmp.eq.raised = ""
          /\ cmp.eq.value = (Canonical(cmp.a) = Canonical(cmp.b))
    /\ "hash" \in cmp.did =>
          /\ cmp.hash.raised = ""
          /\ (Canonical(cmp.a) = Canonical(cmp.b)) => cmp.hash.value[1] = cmp.hash.value[2]
    /\ "lt" \in cmp.did =>
          /\ cmp.lt.raised = ""
          /\ cmp.lt.value = StrLess(lower(Canonical(cmp.a)), lower(Canonical(cmp.b)))

\* C20 for the module symlinkwalk imports
SupportPathRefComparable == cmp.module = "support.pathref" => C20_EqualHashOrdered

---------------------------------------------------------------------------
(* The guard against the expansions in progress *)

\* A suspended _scan() invocation that pushed its symlink and read its target
Expanding(f) == f.k = "scan" /\ f.symlink

\* The symlinks whose expansion is in progress, outermost first
InProgress ==
    LET fr == SelectSeq(frames, Expanding)
    IN  [i \in 1..Len(fr) |-> fr[i].ref.segs]

\* C21: without uniqueness mode, at every step the guard holds exactly the
\* symlinks whose expansion is in progress on the active chain, in nesting
\* order and without duplicates, so that no symlink is expanded while an
\* earlier expansion of it is still in progress.
C21_GuardIsInProgress ==
    ~self.yield_unique =>
        /\ Guard = InProgress
        /\ NoDuplicates(InProgress)

---------------------------------------------------------------------------
(* The order of the pending segments *)

\* The pending elements of the running instance in the order they will be
\* consumed: the top of the stack first
Pending(d) == Reverse(d._elem_stack)

\* The running _scan() has pushed the symlink it was called with and read its
\* stored target in this step
Expands == ctl.at = "scan" /\ log' = Append(log, Ev("follow", Candidate(ctl.ref), <<>>))

\* C22: when a symlink with the stored target t1/.../tk is expanded while the
\* segments s1..sm are pending, the candidates that follow append t1, ..., tk
\* and then s1, ..., sm in that order, onto the symlink's parent directory for
\* a relative target and onto the root for an absolute one; exactly t1..tk
\* are marked in-link.  Every later candidate appends the next pending
\* segment, and resolve_path() starts with the input's segments pending in
\* their order.
C22_TargetThenPending ==
    [][ /\ Expands =>
              LET l == Candidate(ctl.ref)
                  link == readlink(l)
                  base == IF link.abs THEN Root ELSE Parent(l)
                  todo == [i \in 1..Len(link.segs) |-> _InLinkElem(link.segs[i], l)]
                              \o Pending(Driver)
                  e == IF ctl.on = "slw" THEN slw' ELSE self'
              IN  IF todo = <<>>
                  THEN ctl'.at = "yield" /\ ctl'.ref.segs = base
                  ELSE /\ ctl'.at = "scan"
                       /\ ctl'.ref.segs = Append(base, todo[1].elem)
                       /\ ctl'.ref.inlink = todo[1].inlink
                       /\ Pending(e) = Tail(todo)
        /\ (ctl.at = "scan" /\ ctl'.at = "scan" /\ log' = log) =>
              LET todo == Pending(Driver)
                  e == IF ctl.on = "slw" THEN slw' ELSE self'
              IN  /\ ctl'.ref.segs = Append(Candidate(ctl.ref), todo[1].elem)
                  /\ ctl'.ref.inlink = todo[1].inlink
                  /\ Pending(e) = Tail(todo)
        /\ (ctl.at = "start" /\ ctl'.on = "slw" /\ call.path.base # "home") =>
              /\ ElemStrs(Pending(slw')) = call.path.segs
              /\ \A i \in 1..Len(slw'._elem_stack) : ~slw'._elem_stack[i].inlink
              /\ ctl'.ref.segs = IF call.path.base = "abs" THEN Root ELSE Cwd
      ]_vars

\* C22: a symlink whose stored target has two segments has just been expanded
\* with a segment of the input still pending
C22_ExpandedWithPending ==
    /\ ctl.at = "scan" /\ frames # <<>>
    /\ Expanding(Last(frames))
    /\ Len(readlink(Last(frames).ref.segs).segs) >= 2
    /\ Last(frames).e0 # <<>>
    /\ ctl.ref.inlink
    /\ Len(Pending(Driver)) >= 2

---------------------------------------------------------------------------
(* The filter and existence *)

\* The candidate the running _scan() was called with names something: it is
\* a directory entry, or the operating system finds it
CandidateExists == ctl.ref.entry \/ Stat(ctl.ref.segs) # <<>>

\* _scan() runs on the consumer's instance for a candidate its filter rejects
ScansRejected ==
    /\ IsIter /\ ctl.at = "scan" /\ ctl.on = "self"
    /\ ~Accepted(Candidate(ctl.ref))

\* C23, as stated: a candidate the filter rejects is recorded in skipped and
\* never in bad_paths, whether or not it exists.
C23_FilterBeforeExistence ==
    [][ ScansRejected =>
           /\ Candidate(ctl.ref) \in self'.skipped
           /\ self'.bad_paths = self.bad_paths ]_vars

\* C23, amended: a candidate that exists and that the filter rejects is
\* recorded in skipped and not in bad_paths; a candidate that does not exist
\* is recorded in bad_paths and not in skipped, whatever the filter would say
\* of it.
C23_ExistenceBeforeFilter ==
    [][ ScansRejected =>
           IF CandidateExists
           THEN /\ Candidate(ctl.ref) \in self'.skipped
                /\ self'.bad_paths = self.bad_paths
           ELSE /\ self'.skipped = self.skipped
                /\ \E b \in self'.bad_paths : b.segs = BadPathOf(self, ctl.ref).segs
                /\ ctl'.at = "next" ]_vars

\* C23: the walk has recorded a bad path for a candidate that does not exist
\* and that the filter rejects, and has skipped nothing
C23_RejectedMissingIsBad ==
    /\ IsIter /\ ctl.on = "self" /\ ctl.at = "next"
    /\ ~ctl.ref.entry /\ Stat(ctl.ref.segs) = <<>>
    /\ ~Accepted(ctl.ref.segs)
    /\ self.bad_paths # {} /\ self.skipped = {}

---------------------------------------------------------------------------
(* The open directory handles *)

\* The scandir handles the events of l leave open, in the order they were
\* opened; a close releases the handle opened last on its directory
RECURSIVE Handles(_)
Handles(l) ==
    IF l = <<>> THEN <<>>
    ELSE LET h == Handles(Front(l))
             e == Last(l)
         IN  IF e.ev = "scandir" THEN Append(h, e.segs)
             ELSE IF e.ev = "close" /\ h # <<>> /\ Last(h) = e.segs THEN Front(h)
             ELSE h

\* A listing loop of iter_dir() or _yield_contents() that is suspended
Listing(f) == f.k = "dir"

\* The directories being listed on the active recursion chain, outermost first
BeingListed ==
    LET fr == SelectSeq(frames, Listing)
    IN  [i \in 1..Len(fr) |-> fr[i].dir]

\* C24: during iter_dir() and iter_tree() the open directory handles are
\* exactly the directories being listed on the active recursion chain; when
\* an entry is visited the innermost open handle is its own directory's, the
\* handles of its earlier siblings being released; and no handle is open once
\* the sequence is exhausted, has ended by an exception, or was abandoned.
C24_HandlesAreListings ==
    IsIter =>
        /\ Handles(log) = BeingListed
        /\ (ctl.at = "scan" /\ ctl.ref.entry) =>
              (Handles(log) # <<>> /\ Last(Handles(log)) = Parent(ctl.ref.segs))
        /\ ctl.at \in {"done", "closed"} => Handles(log) = <<>>
        /\ \A i \in 1..Len(log) : log[i].ev = "close" =>
              (Handles(SubSeq(log, 1, i - 1)) # <<>>
               /\ Last(Handles(SubSeq(log, 1, i - 1))) = log[i].segs)

\* C24: the consumer has abandoned a walk that held two directories open
C24_AbandonedWithOpenHandles ==
    /\ IsIter /\ ctl.at = "closed"
    /\ Len(log) >= 2
    /\ log[Len(log)].ev = "close" /\ log[Len(log) - 1].ev = "close"
    /\ log[Len(log)].segs # log[Len(log) - 1].segs

---------------------------------------------------------------------------
(* Uniqueness mode against the plain walk *)

UniqueCalls == {c \in IterCalls : c.op = "iter_tree"}

\* iter_tree() on an instance in uniqueness mode
UniqueInit == Init /\ call \in UniqueCalls /\ self.yield_unique

\* The consumer, its walk in uniqueness mode over, calls reset(), sets
\* yield_unique to False and walks the same tree again
rerun_not_unique ==
    /\ ctl.at = "done"
    /\ self.yield_unique
    /\ prev = <<>>
    /\ prev' = Append(prev, RunRecord)
    /\ self' = [Reset(self) EXCEPT !.yield_unique = FALSE]
    /\ ctl' = Ctl("start", "self", PathRef(Root), "", "")
    /\ yielded' = <<>>
    /\ result' = NoOutcome
    /\ raised' = ""
    /\ log' = <<>>
    /\ UNCHANGED <<fs, order, call, slw, frames, cmp>>

UniqueNext ==
    \/ resolve_path
    \/ resolve_path_return
    \/ iter_resolved
    \/ iter_tree
    \/ scan
    \/ yield_fn_resume
    \/ scandir_next
    \/ scandir_close
    \/ scan_finally
    \/ finish
    \/ rerun_not_unique

UniqueSpec == UniqueInit /\ [][UniqueNext]_vars

\* Both walks of the same tree are over, the first in uniqueness mode, the
\* second without, and neither raised
BothWalked ==
    /\ Done /\ prev # <<>>
    /\ Last(prev).yield_unique /\ ~self.yield_unique
    /\ Last(prev).raised = "" /\ raised = ""

\* C25: uniqueness mode loses nothing: iter_tree() with yield_unique=True
\* yields the same set of paths as iter_tree() with yield_unique=False on the
\* same filesystem with the same filter, each of them once.
C25_UniqueLosesNothing ==
    BothWalked =>
        /\ Range(Last(prev).yielded) = Range(yielded)
        /\ NoDuplicates(Last(prev).yielded)

---------------------------------------------------------------------------
(* resolve_path() against the operating system's lookup *)

\* C26: for an input that the operating system resolves (symlinks followed,
\* each component in turn), resolve_path() raises nothing and returns a good
\* path, the fully resolved real path; also when the input passes through
\* the same symlink more than once.
C26_ResolvesWhatOsResolves ==
    (call.op = "resolve_path" /\ Done /\ Stat(InputSegs) # <<>>) =>
        /\ raised = ""
        /\ result = Outcome("PathRef", Stat(InputSegs)[1])

---------------------------------------------------------------------------
(* The pending segments between branches *)

\* C27: the pending segment stack is empty whenever a path is yielded, when
\* _scan() is called for an entry of a directory listing, and after every
\* invocation of _scan() that ends without yielding (missing, broken,
\* recursive, excluded, duplicate), so no segment of one branch is left for
\* another.
C27_StackEmptyBetweenBranches ==
    [][ LET e == IF ctl'.on = "slw" THEN slw' ELSE self'
        IN  /\ ctl'.at = "yield" => e._elem_stack = <<>>
            /\ (ctl'.at = "scan" /\ ctl'.ref.entry) => e._elem_stack = <<>>
            /\ (ctl.at = "scan" /\ ctl'.at = "next") => e._elem_stack = <<>>
      ]_vars

\* C27: a symlink's stored target broke off at its first segment with its
\* second segment pending, and _scan() is called for the next entry
C27_NextEntryAfterDiscard ==
    /\ IsIter /\ ctl.on = "self" /\ ctl.at = "scan" /\ ctl.ref.entry
    /\ self._elem_stack = <<>>
    /\ \E i \in 1..Len(log) :
          /\ log[i].ev = "broken"
          /\ is_symlink(log[i].segs)
          /\ LET link == readlink(log[i].segs)
             IN  /\ Len(link.segs) = 2 /\ ~link.abs
                 /\ Lstat(Append(Parent(log[i].segs), link.segs[1])) = <<>>
=============================================================================
